---- MODULE Spec2Model ----
(***************************************************************************)
(* Morse trainer: symbol compiler, playback scheduler, tone generator and  *)
(* session controller of the App component, as a state machine.            *)
(*                                                                         *)
(* Text is a sequence of one-character strings.  One step of the model is  *)
(* one browser task together with the microtasks it triggers: an event     *)
(* handler, a timer callback followed by the continuation of the awaiting  *)
(* async function up to its next wait, or one React render with its        *)
(* effects.                                                                *)
(***************************************************************************)
EXTENDS Integers, Sequences, FiniteSets, TLC

\* ------------------------------------------------------------------ bounds
MaxSessions == 2      \* handleStart calls in one behaviour
MaxStops == 2         \* handleStop calls in one behaviour
MaxChars == 1         \* largest settings.numCharacters Init draws
MaxPlayChars == 2     \* largest settings.numCharacters InitPlay draws
MaxTeardown == 1      \* teardown callbacks of stopTone pending at one time
MaxLen == 3           \* longest string InitPure hands to a function
MaxTimingChars == 2   \* largest settings.numCharacters InitTiming draws
MaxWaits == 3         \* waits entered in one behaviour of SpecWait

\* the range of the Speed slider
MinWpm == 5
MaxWpm == 60

\* --------------------------------------------------------------- constants
Pair(a, b) == <<a, b>>

\* MORSE_CODE as key/value pairs, values written element by element
MorsePairs ==
  { Pair("A", <<".", "-">>), Pair("B", <<"-", ".", ".", ".">>),
    Pair("C", <<"-", ".", "-", ".">>), Pair("D", <<"-", ".", ".">>),
    Pair("E", <<".">>), Pair("F", <<".", ".", "-", ".">>),
    Pair("G", <<"-", "-", ".">>), Pair("H", <<".", ".", ".", ".">>),
    Pair("I", <<".", ".">>), Pair("J", <<".", "-", "-", "-">>),
    Pair("K", <<"-", ".", "-">>), Pair("L", <<".", "-", ".", ".">>),
    Pair("M", <<"-", "-">>), Pair("N", <<"-", ".">>),
    Pair("O", <<"-", "-", "-">>), Pair("P", <<".", "-", "-", ".">>),
    Pair("Q", <<"-", "-", ".", "-">>), Pair("R", <<".", "-", ".">>),
    Pair("S", <<".", ".", ".">>), Pair("T", <<"-">>),
    Pair("U", <<".", ".", "-">>), Pair("V", <<".", ".", ".", "-">>),
    Pair("W", <<".", "-", "-">>), Pair("X", <<"-", ".", ".", "-">>),
    Pair("Y", <<"-", ".", "-", "-">>), Pair("Z", <<"-", "-", ".", ".">>),
    Pair("1", <<".", "-", "-", "-", "-">>), Pair("2", <<".", ".", "-", "-", "-">>),
    Pair("3", <<".", ".", ".", "-", "-">>), Pair("4", <<".", ".", ".", ".", "-">>),
    Pair("5", <<".", ".", ".", ".", ".">>), Pair("6", <<"-", ".", ".", ".", ".">>),
    Pair("7", <<"-", "-", ".", ".", ".">>), Pair("8", <<"-", "-", "-", ".", ".">>),
    Pair("9", <<"-", "-", "-", "-", ".">>), Pair("0", <<"-", "-", "-", "-", "-">>),
    Pair(".", <<".", "-", ".", "-", ".", "-">>), Pair(",", <<"-", "-", ".", ".", "-", "-">>),
    Pair("?", <<".", ".", "-", "-", ".", ".">>), Pair("/", <<"-", ".", ".", "-", ".">>),
    Pair("@", <<".", "-", "-", ".", "-", ".">>), Pair("=", <<"-", ".", ".", ".", "-">>) }

MorseKeys == { p[1] : p \in MorsePairs }

\* MORSE_CODE as a function on its keys
MorseTable == [ k \in MorseKeys |-> (CHOOSE p \in MorsePairs : p[1] = k)[2] ]

\* MORSE_CODE[char]; the empty sequence stands for undefined
MORSE_CODE(char) ==
  IF char \in MorseKeys THEN MorseTable[char] ELSE <<>>

\* LESSONS, id |-> chars
LessonPairs ==
  { Pair("lesson1", <<"K", "M">>),
    Pair("lesson2", <<"K", "M", "R", "S">>),
    Pair("lesson3", <<"K", "M", "R", "S", "U", "A">>),
    Pair("lesson4", <<"K", "M", "R", "S", "U", "A", "P", "T">>),
    Pair("lesson5", <<"A", "B", "C", "D", "E", "F", "G", "H", "I", "J", "K", "L", "M",
                      "N", "O", "P", "Q", "R", "S", "T", "U", "V", "W", "X", "Y", "Z">>),
    Pair("lesson6", <<"0", "1", "2", "3", "4", "5", "6", "7", "8", "9">>),
    Pair("custom", <<>>) }

LessonIds == { p[1] : p \in LessonPairs }

\* String.prototype.toUpperCase on one character
LowerPairs ==
  { Pair("a", "A"), Pair("b", "B"), Pair("c", "C"), Pair("d", "D"), Pair("e", "E"),
    Pair("f", "F"), Pair("g", "G"), Pair("h", "H"), Pair("i", "I"), Pair("j", "J"),
    Pair("k", "K"), Pair("l", "L"), Pair("m", "M"), Pair("n", "N"), Pair("o", "O"),
    Pair("p", "P"), Pair("q", "Q"), Pair("r", "R"), Pair("s", "S"), Pair("t", "T"),
    Pair("u", "U"), Pair("v", "V"), Pair("w", "W"), Pair("x", "X"), Pair("y", "Y"),
    Pair("z", "Z") }

LowerKeys == { p[1] : p \in LowerPairs }

UpperTable == [ k \in LowerKeys |-> (CHOOSE p \in LowerPairs : p[1] = k)[2] ]

toUpperCase(c) ==
  IF c \in LowerKeys THEN UpperTable[c] ELSE c

\* String.prototype.trim: strip leading and trailing spaces
RECURSIVE trimStart(_)
trimStart(t) ==
  IF t # <<>> /\ Head(t) = " " THEN trimStart(Tail(t)) ELSE t

RECURSIVE trimEnd(_)
trimEnd(t) ==
  IF t # <<>> /\ t[Len(t)] = " " THEN trimEnd(SubSeq(t, 1, Len(t) - 1)) ELSE t

trim(t) == trimEnd(trimStart(t))

\* ------------------------------------------------------- symbol compiler
Sym(type, char) == [type |-> type, char |-> char]

\* the symbols of text[i] looked up as typed
CharSymbolsCaseSensitive(text, i) ==
  LET char == text[i]
      morse == MORSE_CODE(char)
  IN  IF char = " " THEN << Sym("wordSpace", "") >>
      ELSE IF morse = <<>> THEN <<>>
      ELSE [ j \in 1..Len(morse) |->
               Sym(IF morse[j] = "." THEN "dot" ELSE "dash", char) ]
           \o (IF i < Len(text) /\ text[i + 1] # " "
               THEN << Sym("charSpace", "") >> ELSE <<>>)

\* the symbols of text[i] with a run of spaces taken as one space
CharSymbolsCollapsingSpaces(text, i) ==
  LET char == toUpperCase(text[i])
      morse == MORSE_CODE(char)
  IN  IF char = " "
      THEN IF i > 1 /\ text[i - 1] = " " THEN <<>> ELSE << Sym("wordSpace", "") >>
      ELSE IF morse = <<>> THEN <<>>
      ELSE [ j \in 1..Len(morse) |->
               Sym(IF morse[j] = "." THEN "dot" ELSE "dash", char) ]
           \o (IF i < Len(text) /\ text[i + 1] # " "
               THEN << Sym("charSpace", "") >> ELSE <<>>)

\* the symbols of text[i] with a gap symbol of its own between the elements
CharSymbolsWithElementGaps(text, i) ==
  LET char == toUpperCase(text[i])
      morse == MORSE_CODE(char)
  IN  IF char = " " THEN << Sym("wordSpace", "") >>
      ELSE IF morse = <<>> THEN <<>>
      ELSE [ j \in 1..(2 * Len(morse) - 1) |->
               IF j % 2 = 0 THEN Sym("elementSpace", "")
               ELSE Sym(IF morse[(j + 1) \div 2] = "." THEN "dot" ELSE "dash", char) ]
           \o (IF i < Len(text) /\ text[i + 1] # " "
               THEN << Sym("charSpace", "") >> ELSE <<>>)

\* the symbols of text[i] with a character gap before a space too
CharSymbolsGapBeforeSpace(text, i) ==
  LET char == toUpperCase(text[i])
      morse == MORSE_CODE(char)
  IN  IF char = " " THEN << Sym("wordSpace", "") >>
      ELSE IF morse = <<>> THEN <<>>
      ELSE [ j \in 1..Len(morse) |->
               Sym(IF morse[j] = "." THEN "dot" ELSE "dash", char) ]
           \o (IF i < Len(text) THEN << Sym("charSpace", "") >> ELSE <<>>)

\* the symbols pushed for text[i] (1-based); char "" stands for undefined
CharSymbols(text, i) ==
  LET char == toUpperCase(text[i])
      morse == MORSE_CODE(char)
  IN  IF char = " " THEN << Sym("wordSpace", "") >>
      ELSE IF morse = <<>> THEN <<>>
      ELSE [ j \in 1..Len(morse) |->
               Sym(IF morse[j] = "." THEN "dot" ELSE "dash", char) ]
           \o (IF i < Len(text) /\ text[i + 1] # " "
               THEN << Sym("charSpace", "") >> ELSE <<>>)

RECURSIVE SequenceFrom(_, _)
SequenceFrom(text, i) ==
  IF i > Len(text) THEN <<>>
  ELSE CharSymbols(text, i) \o SequenceFrom(text, i + 1)

textToMorseSequence(text) == SequenceFrom(text, 1)

\* ------------------------------------------------------- text generation
\* every string generateRandomText can return, by the draws of Math.random
RECURSIVE GenFrom(_, _, _, _)
GenFrom(chars, length, groupSize, i) ==
  IF i >= length THEN { <<>> }
  ELSE { <<chars[r]>>
         \o (IF (i + 1) % groupSize = 0 /\ i # length - 1 THEN <<" ">> ELSE <<>>)
         \o rest :
           r \in 1..Len(chars), rest \in GenFrom(chars, length, groupSize, i + 1) }

\* generateRandomText drawing from the charset as typed
generateRandomTextAsTyped(charset, length, groupSize) ==
  IF charset = <<>> THEN { <<>> }
  ELSE GenFrom(charset, length, groupSize, 0)

generateRandomText(charset, length, groupSize) ==
  IF charset = <<>> THEN { <<>> }
  ELSE GenFrom([ k \in 1..Len(charset) |-> toUpperCase(charset[k]) ],
               length, groupSize, 0)

\* ----------------------------------------------------------------- timing
\* a rounded dot duration
getTimingUnitsRounded(wpm) == [num |-> (2 * 1200 + wpm) \div (2 * wpm), den |-> 1]

\* getTimingUnits: the dot duration in milliseconds, the quotient kept as the
\* fraction num / den
getTimingUnits(wpm) == [num |-> 1200, den |-> wpm]

\* ---------------------------------------------------------------- scoring
\* the characters /\s/ matches among those the model uses
Whitespace == {" ", "\t", "\n"}

\* String.prototype.replace(/\s/g, '')
stripWhitespace(t) == SelectSeq(t, LAMBDA c : c \notin Whitespace)

\* String.prototype.toUpperCase on a string
upperCased(t) == [ k \in 1..Len(t) |-> toUpperCase(t[k]) ]

\* Math.round(n / d) for n >= 0 and d > 0: halves go up
round(n, d) == (2 * n + d) \div (2 * d)

\* calculateScore comparing the strings as they are typed
calculateScoreCaseSensitive(target, user) ==
  IF target = <<>> THEN 0
  ELSE LET t == stripWhitespace(target)
           u == stripWhitespace(user)
           len == IF Len(t) > 1 THEN Len(t) ELSE 1
           shorter == IF Len(t) < Len(u) THEN Len(t) ELSE Len(u)
           correct == Cardinality({ i \in 1..shorter : t[i] = u[i] })
       IN  round(correct * 100, len)

\* calculateScore, in tenths: Math.round(rawScore * 10) before the division by
\* ten that places the decimal point
calculateScore(target, user) ==
  IF target = <<>> THEN 0
  ELSE LET t == upperCased(stripWhitespace(target))
           u == upperCased(stripWhitespace(user))
           len == IF Len(t) > 1 THEN Len(t) ELSE 1
           shorter == IF Len(t) < Len(u) THEN Len(t) ELSE Len(u)
           correct == Cardinality({ i \in 1..shorter : t[i] = u[i] })
       IN  round(correct * 100, len)

\* ------------------------------------------------------------------ state
VARIABLES
  call,               \* a function applied on its own: name, arguments, result
  settings,           \* the settings record of the App component
  ctx,                \* AudioEngine.ctx is non-null
  ctxState,           \* AudioEngine.ctx.state, "none" without a context
  oscillator,         \* AudioEngine.oscillator and gainNode are non-null
  orphaned,           \* started oscillators no longer referenced and never stopped
  teardownTimers,     \* pending setTimeout(..., 10) callbacks of stopTone
  nSessions,          \* handleStart calls so far; call n runs session n
  nStops,             \* handleStop calls so far
  sess,               \* per session: status, text and position of its async run
  aborted,            \* per session: signal.aborted of its AbortController
  trace,              \* per session: what its playSequence calls did, in order
  abortControllerRef, \* abortControllerRef.current: 0 for null, else a session
  playState,          \* playState as of the last render
  pendingPlayState,   \* queued setPlayState value, "none" when nothing is queued
  playedText,         \* playedText as of the last render
  pendingPlayedText,  \* queued setPlayedText updates, oldest first, each with
                      \* the session whose code queued it
  playedTextRef,      \* playedTextRef.current
  history,            \* history, newest first
  consoleErrors       \* console.error calls of handleStart so far

vars == << call, settings, ctx, ctxState, oscillator, orphaned, teardownTimers, nSessions,
           nStops, sess, aborted, trace, abortControllerRef, playState,
           pendingPlayState, playedText, pendingPlayedText, playedTextRef, history,
           consoleErrors >>

Sessions == 1..MaxSessions

\* the mutable state as one record, so that a function of the code is an operator
\* from state to state
State ==
  [ ctx |-> ctx, ctxState |-> ctxState, oscillator |-> oscillator,
    orphaned |-> orphaned, consoleErrors |-> consoleErrors,
    teardownTimers |-> teardownTimers, nSessions |-> nSessions, sess |-> sess,
    aborted |-> aborted, trace |-> trace,
    abortControllerRef |-> abortControllerRef, playState |-> playState,
    pendingPlayState |-> pendingPlayState, playedText |-> playedText,
    pendingPlayedText |-> pendingPlayedText, playedTextRef |-> playedTextRef,
    history |-> history ]

Becomes(M) ==
  /\ M.teardownTimers <= MaxTeardown
  /\ ctx' = M.ctx
  /\ ctxState' = M.ctxState
  /\ oscillator' = M.oscillator
  /\ orphaned' = M.orphaned
  /\ teardownTimers' = M.teardownTimers
  /\ nSessions' = M.nSessions
  /\ sess' = M.sess
  /\ aborted' = M.aborted
  /\ trace' = M.trace
  /\ abortControllerRef' = M.abortControllerRef
  /\ playState' = M.playState
  /\ pendingPlayState' = M.pendingPlayState
  /\ playedText' = M.playedText
  /\ pendingPlayedText' = M.pendingPlayedText
  /\ playedTextRef' = M.playedTextRef
  /\ history' = M.history
  /\ consoleErrors' = M.consoleErrors
  /\ UNCHANGED << settings, call >>

Ev(e, c, k) == [e |-> e, c |-> c, k |-> k]

Log(M, s, ev) == [M EXCEPT !.trace[s] = Append(@, ev)]

\* ---------------------------------------------------------- tone generator
\* the AudioEngine constructor: a context, suspended, where the browser has one
AudioEngine(present) ==
  [ctx |-> present, ctxState |-> IF present THEN "suspended" ELSE "none"]

\* AudioEngine.init: resume a suspended context; resume takes effect when the
\* browser allows audio to start (activation: a user gesture, or no autoplay
\* policy)
init(M, activation) ==
  IF ~M.ctx THEN M
  ELSE IF M.ctxState = "suspended" /\ activation
    THEN [M EXCEPT !.ctxState = "running"]
  ELSE M

\* AudioEngine.close: the context is closed, the reference to it stays
close(M) ==
  IF M.ctx THEN [M EXCEPT !.ctxState = "closed"] ELSE M

\* the engine once App is mounted: the effect of lines 51-54 has run, and under
\* StrictMode in a development build also its cleanup and the effect again
MountedEngine(present, strict, activation) ==
  IF strict
  THEN init(close(init(AudioEngine(present), activation)), activation)
  ELSE init(AudioEngine(present), activation)

\* a float handed to the Web Audio API is accepted: it is finite
isFinite(v) == v # "NaN"

\* playTone raises a TypeError at the gain ramp of line 37: the new nodes are
\* created, connected and referenced by then, the oscillator is not started
playToneThrows(M) == M.ctx /\ ~isFinite(settings.volume)

\* playTone without the test for a context
playToneWithoutContextTest(M) ==
  [M EXCEPT !.orphaned = @ + (IF M.oscillator THEN 1 ELSE 0),
            !.oscillator = TRUE]

\* AudioEngine.playTone: a new oscillator replaces the reference to the old
\* one, which is neither stopped nor disconnected
playTone(M) ==
  IF ~M.ctx THEN M
  ELSE [M EXCEPT !.orphaned = @ + (IF M.oscillator THEN 1 ELSE 0),
                 !.oscillator = TRUE]

\* stopTone without the test for a tone to stop
stopToneWithoutToneTest(M) ==
  IF ~M.ctx THEN M
  ELSE [M EXCEPT !.oscillator = FALSE, !.teardownTimers = @ + 1]

\* AudioEngine.stopTone: ramp down, schedule the teardown, drop the references
stopTone(M) ==
  IF ~M.ctx \/ ~M.oscillator THEN M
  ELSE [M EXCEPT !.oscillator = FALSE, !.teardownTimers = @ + 1]

\* ------------------------------------------------------ session controller
\* the catch of handleStart logging whatever it catches
catchLogsAll(M, s, name) ==
  [M EXCEPT !.sess[s].status = IF name = "AbortError" THEN "cancelled" ELSE "failed",
            !.consoleErrors = @ + 1]

\* the catch of handleStart, which ends the session: an AbortError is dropped,
\* any other error is logged
catch(M, s, name) ==
  IF name # "AbortError"
  THEN [M EXCEPT !.sess[s].status = "failed", !.consoleErrors = @ + 1]
  ELSE [M EXCEPT !.sess[s].status = "cancelled"]

\* AbortController.abort: sets signal.aborted and runs the listeners that wait
\* registered; the listener of a pending wait clears its timer and rejects, and
\* the rejection ends handleStart in its catch
abort(M, s) ==
  IF M.aborted[s] THEN M
  ELSE LET M1 == [M EXCEPT !.aborted[s] = TRUE]
       IN  IF M.sess[s].status = "waiting" THEN catch(M1, s, "AbortError") ELSE M1

\* saveHistory without its guard on an empty playedTextRef
saveHistoryUnguarded(M) ==
  [M EXCEPT !.history = << [targetText |-> M.playedTextRef] >> \o @]

saveHistory(M) ==
  IF M.playedTextRef = <<>> THEN M
  ELSE [M EXCEPT !.history = << [targetText |-> M.playedTextRef] >> \o @]

setPlayState(M, v) == [M EXCEPT !.pendingPlayState = v]

\* stopPlayback leaving the tone as it is
stopPlaybackKeepsTone(M) ==
  LET M1 == IF M.abortControllerRef # 0
            THEN [abort(M, M.abortControllerRef) EXCEPT !.abortControllerRef = 0]
            ELSE M
  IN  saveHistory(setPlayState(M1, "FINISHED"))

\* stopPlayback dropping the controller without aborting it
stopPlaybackDropsController(M) ==
  saveHistory(setPlayState(stopTone([M EXCEPT !.abortControllerRef = 0]),
                           "FINISHED"))

stopPlayback(M) ==
  LET M1 == IF M.abortControllerRef # 0
            THEN [abort(M, M.abortControllerRef) EXCEPT !.abortControllerRef = 0]
            ELSE M
      M2 == stopTone(M1)
      M3 == setPlayState(M2, "FINISHED")
  IN  saveHistory(M3)

handleStop(M) == setPlayState(stopPlayback(M), "IDLE")

\* the onChar callback handleStart passes for the main text
onChar(M, s, c) ==
  [M EXCEPT !.pendingPlayedText = Append(@, [op |-> "append", c |-> c, s |-> s])]

\* ------------------------------------------------------ playback scheduler
Pos(phase, i, w) == [phase |-> phase, i |-> i, w |-> w]

\* a wait that does not test the signal when it is entered
waitIgnoringSignal(M, s, pos, k) ==
  [Log(M, s, Ev("wait", "", k)) EXCEPT
     !.sess[s].status = "waiting", !.sess[s].pos = pos]

\* a wait that lasts longer while a teardown callback of stopTone is pending
waitRacingTeardown(M, s, pos, k) ==
  IF M.aborted[s]
  THEN catch(M, s, "AbortError")
  ELSE [Log(M, s, Ev("wait", "", k + M.teardownTimers)) EXCEPT
          !.sess[s].status = "waiting", !.sess[s].pos = pos]

\* wait(ms, signal), ms given in dot durations: rejects at once on an aborted
\* signal, else arms the timer and suspends the session at position pos
wait(M, s, pos, k) ==
  IF M.aborted[s]
  THEN catch(M, s, "AbortError")
  ELSE [Log(M, s, Ev("wait", "", k)) EXCEPT
          !.sess[s].status = "waiting", !.sess[s].pos = pos]

\* the text a phase plays
PhaseText(M, s, phase) ==
  IF phase = "pre" THEN settings.preStartText ELSE M.sess[s].text

\* the character of the last dot or dash before index i, "" when there is none
RECURSIVE lastCharPlayed(_, _)
lastCharPlayed(sequence, i) ==
  IF i < 1 THEN ""
  ELSE IF sequence[i].char # "" THEN sequence[i].char
  ELSE lastCharPlayed(sequence, i - 1)

\* first-symbol test against the last character played, gaps skipped
isFirstSymbolByLastChar(sequence, i) ==
  lastCharPlayed(sequence, i - 1) # sequence[i].char

\* first-symbol test that holds of every element
isFirstSymbolAlways(sequence, i) == i >= 1

isFirstSymbolOfChar(sequence, i) ==
  \/ i = 1
  \/ sequence[i - 1].char # sequence[i].char
  \/ sequence[i - 1].type = "wordSpace"
  \/ sequence[i - 1].type = "charSpace"

\* handleStart returning after the main text without stopPlayback
afterSequenceNoStop(M, s, phase) ==
  IF phase = "pre"
  THEN wait(M, s, Pos("gap", 0, 1), 7)
  ELSE [M EXCEPT !.sess[s].status = "running"]

\* handleStart waiting ten dot durations after the preamble
afterSequenceGapTen(M, s, phase) ==
  IF phase = "pre"
  THEN wait(M, s, Pos("gap", 0, 1), 10)
  ELSE stopPlayback([M EXCEPT !.sess[s].status = "completed"])

\* handleStart after playSequence has returned: the word gap after the
\* preamble, or stopPlayback after the main text
afterSequence(M, s, phase) ==
  IF phase = "pre"
  THEN wait(M, s, Pos("gap", 0, 1), 7)
  ELSE stopPlayback([M EXCEPT !.sess[s].status = "completed"])

\* every call of playSequence passing an onChar callback
hasOnCharAlways(phase) == phase \in {"pre", "main"}

\* the call of playSequence passes an onChar callback
hasOnChar(phase) == phase = "main"

\* playTone followed by a wait of one dot duration whatever the element
toneThenWaitOneUnit(M, s, pos, k) ==
  LET M1 == Log(playTone(M), s, Ev("playTone", "", 0))
  IN  IF playToneThrows(M) THEN catch(M1, s, "TypeError")
      ELSE wait(M1, s, pos, 1)

\* playTone followed by the wait of k dot durations, which an error raised by
\* playTone skips
toneThenWait(M, s, pos, k) ==
  LET M1 == Log(playTone(M), s, Ev("playTone", "", 0))
  IN  IF playToneThrows(M) THEN catch(M1, s, "TypeError")
      ELSE wait(M1, s, pos, k)

\* playSequence from loop index i (1-based) up to its first wait
playSequence(M, s, phase, i) ==
  LET sequence == textToMorseSequence(PhaseText(M, s, phase))
  IN  IF i > Len(sequence) \/ M.aborted[s]
      THEN afterSequence(M, s, phase)
      ELSE
        LET item == sequence[i]
            M1 == IF item.char # "" /\ hasOnChar(phase)
                     /\ isFirstSymbolOfChar(sequence, i)
                  THEN onChar(Log(M, s, Ev("onChar", item.char, 0)), s, item.char)
                  ELSE M
        IN  CASE item.type = "dot" -> toneThenWait(M1, s, Pos(phase, i, 1), 1)
              [] item.type = "dash" -> toneThenWait(M1, s, Pos(phase, i, 1), 3)
              [] item.type = "charSpace" ->
                   wait(M1, s, Pos(phase, i, 1), 2)
              [] item.type = "wordSpace" ->
                   wait(IF hasOnChar(phase)
                        THEN onChar(Log(M1, s, Ev("onChar", " ", 0)), s, " ")
                        ELSE M1,
                        s, Pos(phase, i, 1), 6)

\* the whole configured gap waited after the standard one
extraFullGap(type) ==
  IF type = "charSpace" THEN settings.charSpacing
  ELSE IF type = "wordSpace" THEN settings.wordSpacing
  ELSE 0

\* the extra spacing added to the standard gap
extraOnTop(type) ==
  IF type = "charSpace" /\ settings.charSpacing > 3 THEN settings.charSpacing
  ELSE IF type = "wordSpace" /\ settings.wordSpacing > 7 THEN settings.wordSpacing
  ELSE 0

\* the extra spacing after a gap symbol, in dot durations: what the setting
\* exceeds the standard gap by, 0 standing for no extra wait
extra(type) ==
  IF type = "charSpace" /\ settings.charSpacing > 3 THEN settings.charSpacing - 3
  ELSE IF type = "wordSpace" /\ settings.wordSpacing > 7 THEN settings.wordSpacing - 7
  ELSE 0

\* the pending wait of session s resolves and its async function runs on to the
\* next wait
resume(M, s) ==
  LET pos == M.sess[s].pos
      sequence == textToMorseSequence(PhaseText(M, s, pos.phase))
      type == sequence[pos.i].type
  IN  IF pos.phase = "gap" THEN playSequence(M, s, "main", 1)
      ELSE IF pos.w = 2 THEN playSequence(M, s, pos.phase, pos.i + 1)
      ELSE IF type \in {"dot", "dash"}
        THEN wait(Log(stopTone(M), s, Ev("stopTone", "", 0)),
                  s, Pos(pos.phase, pos.i, 2), 1)
      ELSE IF extra(type) > 0
        THEN wait(M, s, Pos(pos.phase, pos.i, 2), extra(type))
      ELSE playSequence(M, s, pos.phase, pos.i + 1)

\* the charset handleStart passes to generateRandomText
Charset ==
  LET lesson == { p \in LessonPairs : p[1] = settings.selectedLessonId }
      charset == IF lesson # {} THEN (CHOOSE p \in lesson : TRUE)[2]
                 ELSE settings.customCharset
  IN  IF charset = <<>> THEN <<"K", "M">> ELSE charset

\* handleStart plays the preamble
HasPreamble == settings.preStartText # <<>> /\ trim(settings.preStartText) # <<>>

handleStart(M, textToPlay) ==
  LET s == M.nSessions + 1
      M1 == [init(M, TRUE) EXCEPT
                      !.nSessions = s,
                      !.abortControllerRef = s,
                      !.sess[s] = [status |-> "running", text |-> textToPlay,
                                   pos |-> Pos("main", 0, 1)],
                      !.pendingPlayState = "PLAYING",
                      !.pendingPlayedText = Append(@, [op |-> "set", c |-> "", s |-> s]),
                      !.playedTextRef = <<>>]
  IN  IF HasPreamble
      THEN playSequence(M1, s, "pre", 1)
      ELSE playSequence(M1, s, "main", 1)

\* ---------------------------------------------------------------- React
RECURSIVE ApplyUpdates(_, _)
ApplyUpdates(text, updates) ==
  IF updates = <<>> THEN text
  ELSE ApplyUpdates(IF Head(updates).op = "set" THEN <<>>
                    ELSE Append(text, Head(updates).c),
                    Tail(updates))

\* one render with the queued state updates, followed by its effects: the effect
\* on [playedText] copies playedText to playedTextRef when playedText changed
render(M) ==
  LET text == ApplyUpdates(M.playedText, M.pendingPlayedText)
  IN  [M EXCEPT !.playState = IF M.pendingPlayState = "none" THEN @
                               ELSE M.pendingPlayState,
                !.pendingPlayState = "none",
                !.playedText = text,
                !.pendingPlayedText = <<>>,
                !.playedTextRef = IF text # M.playedText THEN text ELSE @]

\* ---------------------------------------------------------------- actions
\* DEFAULT_SETTINGS, the fields the model reads
DEFAULT_SETTINGS ==
  [ selectedLessonId |-> "lesson5",
    customCharset |-> <<"A", "B", "C", "D", "E", "F", "G", "H", "I", "J", "K", "L", "M",
                        "N", "O", "P", "Q", "R", "S", "T", "U", "V", "W", "X", "Y", "Z">>,
    numCharacters |-> 120,
    groupSize |-> 4,
    preStartText |-> <<"V", "V", "V", "V">>,
    charSpacing |-> 25,
    wordSpacing |-> 25,
    volume |-> "0.5",
    wpm |-> 18 ]

\* settings Init draws: the sessions of one behaviour overlap
SettingsSet ==
  [ selectedLessonId : {"unlisted"},
    customCharset : { <<"E", "T">> },
    numCharacters : 1..MaxChars,
    groupSize : {1},
    preStartText : { <<>>, <<"E">> },
    charSpacing : {3},
    wordSpacing : {7},
    volume : {"0.5"},
    wpm : {18} ]

\* settings InitPlay draws: one session per behaviour, over more texts.  An id
\* that names no lesson makes handleStart fall back on customCharset.
PlaySettingsSet ==
  [ selectedLessonId : {"lesson1", "unlisted"},
    customCharset : { <<"E", " ", "#">> },
    numCharacters : 0..MaxPlayChars,
    groupSize : {1, 2},
    preStartText : { <<>>, <<"e">>, <<" ">>, <<"#">> },
    charSpacing : {3, 4},
    wordSpacing : {7, 8},
    volume : {"0.5"},
    wpm : {18} ]

\* settings InitAudio draws: one session per behaviour, with a volume the Web
\* Audio API accepts and with one it rejects (settings are read from
\* localStorage as they are)
AudioSettingsSet ==
  [ selectedLessonId : {"unlisted"},
    customCharset : { <<"E", "T">> },
    numCharacters : 1..MaxChars,
    groupSize : {1},
    preStartText : { <<>>, <<"E">> },
    charSpacing : {3},
    wordSpacing : {7},
    volume : {"0.5", "NaN"},
    wpm : {18} ]

\* the standard word as a pre-start text: five characters and one space
StandardWord == <<"P", "A", "R", "I", "S", " ">>

\* settings InitTiming draws: one session per behaviour at the ends of the
\* Speed slider, at the default and at a speed that does not divide 1200, over
\* texts with dots, dashes, character gaps and word gaps, with both spacings at
\* the lower end of their sliders, standard, and extended; one preamble has a
\* character without a Morse code before its space, and the standard word
\* precedes the shortest main text only
TimingSettingsSet ==
  { st \in [ selectedLessonId : {"unlisted"},
             customCharset : { <<"A">> },
             numCharacters : 1..MaxTimingChars,
             groupSize : {1, 2},
             preStartText : { <<>>, <<"E">>, <<"E", "#", " ", "E">>, StandardWord },
             charSpacing : {1, 3, 5},
             wordSpacing : {3, 7, 9},
             volume : {"0.5"},
             wpm : {MinWpm, 7, 18, MaxWpm} ] :
      /\ st.wordSpacing = (IF st.charSpacing = 1 THEN 3 ELSE st.charSpacing + 4)
      /\ st.preStartText = StandardWord => st.numCharacters = 1 /\ st.groupSize = 1 }

\* the engines of a production build, by whether the browser let the context
\* start at mount
ProductionEngines == { MountedEngine(TRUE, FALSE, a) : a \in BOOLEAN }

\* every engine: with and without AudioContext, production and development build
AllEngines ==
  { MountedEngine(p, strict, a) : p \in BOOLEAN, strict \in BOOLEAN, a \in BOOLEAN }

NoSession == [status |-> "none", text |-> <<>>, pos |-> Pos("main", 0, 1)]

\* no function is applied on its own
NoCall == [fn |-> "none", args |-> <<>>, done |-> FALSE, result |-> <<>>]

\* the App as mounted, before any user event
Mounted(set, engines) ==
  /\ settings \in set
  /\ \E engine \in engines : ctx = engine.ctx /\ ctxState = engine.ctxState
  /\ oscillator = FALSE
  /\ orphaned = 0
  /\ teardownTimers = 0
  /\ nSessions = 0
  /\ nStops = 0
  /\ sess = [s \in Sessions |-> NoSession]
  /\ aborted = [s \in Sessions |-> FALSE]
  /\ trace = [s \in Sessions |-> <<>>]
  /\ abortControllerRef = 0
  /\ playState = "IDLE"
  /\ pendingPlayState = "none"
  /\ playedText = <<>>
  /\ pendingPlayedText = <<>>
  /\ playedTextRef = <<>>
  /\ history = <<>>
  /\ consoleErrors = 0

InitWith(set, engines) == Mounted(set, engines) /\ call = NoCall

Init == InitWith(SettingsSet, ProductionEngines)

InitPlay == InitWith(PlaySettingsSet, ProductionEngines)

InitAudio == InitWith(AudioSettingsSet, AllEngines)

HandleStart ==
  /\ nSessions < MaxSessions
  /\ \E textToPlay \in generateRandomText(Charset, settings.numCharacters,
                                          settings.groupSize) :
       Becomes(handleStart(State, textToPlay))
  /\ UNCHANGED nStops

HandleStop ==
  /\ nStops < MaxStops
  /\ nStops' = nStops + 1
  /\ Becomes(handleStop(State))

TimerFires ==
  /\ \E s \in Sessions :
       /\ sess[s].status = "waiting"
       /\ Becomes(resume(State, s))
  /\ UNCHANGED nStops

Render ==
  /\ pendingPlayState # "none" \/ pendingPlayedText # <<>>
  /\ Becomes(render(State))
  /\ UNCHANGED nStops

\* the callback stopTone scheduled stops and disconnects its oscillator
Teardown ==
  /\ teardownTimers > 0
  /\ teardownTimers' = teardownTimers - 1
  /\ UNCHANGED << call, settings, ctx, ctxState, oscillator, orphaned, nSessions, nStops,
                  sess, aborted, trace, abortControllerRef, playState,
                  pendingPlayState, playedText, pendingPlayedText, playedTextRef,
                  history, consoleErrors >>

Next == HandleStart \/ HandleStop \/ TimerFires \/ Render \/ Teardown

Spec == Init /\ [][Next]_vars

\* a single session from start to end
HandleStartOnce == nSessions = 0 /\ HandleStart

NextPlay == HandleStartOnce \/ HandleStop \/ TimerFires \/ Render \/ Teardown

SpecPlay == InitPlay /\ [][NextPlay]_vars

\* a single session on every engine
SpecAudio == InitAudio /\ [][NextPlay]_vars

\* a single session at several speeds, on an engine the browser let start at mount
InitTiming == InitWith(TimingSettingsSet, {MountedEngine(TRUE, FALSE, TRUE)})

SpecTiming == InitTiming /\ [][NextPlay]_vars

\* ------------------------------------------- functions applied on their own
\* the strings of at most n characters of an alphabet
Strings(alphabet, n) == UNION { [1..m -> alphabet] : m \in 0..n }

\* letters in both cases and a space
ScoreChars == {"E", "e", "T", " "}

\* a one-element letter, a lower-case letter of three elements, a space and a
\* character without a Morse code
TextChars == {"E", "k", " ", "#"}

\* charsets: empty, one letter, mixed case, and with a space as typed into the
\* Custom Chars field
Charsets == { <<>>, <<"E">>, <<"e", "T">>, <<"E", " ">> }

Call(fn, args) == [fn |-> fn, args |-> args, done |-> FALSE, result |-> <<>>]

Returns(v) == [call EXCEPT !.done = TRUE, !.result = v]

appVars == << settings, ctx, ctxState, oscillator, orphaned, teardownTimers,
              nSessions, nStops, sess, aborted, trace, abortControllerRef,
              playState, pendingPlayState, playedText, pendingPlayedText,
              playedTextRef, history, consoleErrors >>

InitPure ==
  /\ Mounted({DEFAULT_SETTINGS}, {MountedEngine(TRUE, FALSE, FALSE)})
  /\ \/ call \in { Call("calculateScore", <<target, user>>) :
                     target \in Strings(ScoreChars, MaxLen),
                     user \in Strings(ScoreChars, MaxLen) }
     \/ call \in { Call("generateRandomText", <<charset, length, groupSize>>) :
                     charset \in Charsets, length \in 0..MaxLen,
                     groupSize \in 1..MaxLen }
     \/ call \in { Call("textToMorseSequence", <<text>>) :
                     text \in Strings(TextChars, MaxLen) }
     \/ call \in { Call("getTimingUnits", <<wpm>>) : wpm \in MinWpm..MaxWpm }

CalculateScore ==
  /\ call.fn = "calculateScore" /\ ~call.done
  /\ call' = Returns(calculateScore(call.args[1], call.args[2]))
  /\ UNCHANGED appVars

GenerateRandomText ==
  /\ call.fn = "generateRandomText" /\ ~call.done
  /\ \E text \in generateRandomText(call.args[1], call.args[2], call.args[3]) :
       call' = Returns(text)
  /\ UNCHANGED appVars

TextToMorseSequence ==
  /\ call.fn = "textToMorseSequence" /\ ~call.done
  /\ call' = Returns(textToMorseSequence(call.args[1]))
  /\ UNCHANGED appVars

GetTimingUnits ==
  /\ call.fn = "getTimingUnits" /\ ~call.done
  /\ call' = Returns(getTimingUnits(call.args[1]))
  /\ UNCHANGED appVars

NextPure == CalculateScore \/ GenerateRandomText \/ TextToMorseSequence
            \/ GetTimingUnits

SpecPure == InitPure /\ [][NextPure]_vars

\* ------------------------------------------------- the wait primitive alone
\* the factors of dotDuration the code passes to wait
WaitFactors == {1, 2, 3, 6, 7}

InitWait == InitWith({DEFAULT_SETTINGS}, {MountedEngine(TRUE, FALSE, TRUE)})

\* abortControllerRef.current = new AbortController(), by a caller about to wait
NewController ==
  /\ nSessions = 0
  /\ Becomes([State EXCEPT !.nSessions = 1, !.abortControllerRef = 1,
                           !.sess[1].status = "running"])
  /\ UNCHANGED nStops

\* the caller enters wait(ms, signal)
Wait ==
  /\ sess[1].status = "running"
  /\ sess[1].pos.i < MaxWaits
  /\ \E k \in WaitFactors :
       Becomes(wait(State, 1, Pos("main", sess[1].pos.i + 1, 1), k))
  /\ UNCHANGED nStops

\* abortControllerRef.current.abort(), at any moment
Abort ==
  /\ abortControllerRef = 1
  /\ Becomes(abort(State, 1))
  /\ UNCHANGED nStops

\* the timer of the pending wait fires: resolve(), and the caller goes on
TimerResolves ==
  /\ sess[1].status = "waiting"
  /\ Becomes([State EXCEPT !.sess[1].status = "running"])
  /\ UNCHANGED nStops

NextWait == NewController \/ Wait \/ Abort \/ TimerResolves

SpecWait == InitWait /\ [][NextWait]_vars

\* some pending wait can resolve: ENABLED <<TimerFires>>_vars
TimerEnabled ==
  \E s \in Sessions :
    sess[s].status = "waiting" /\ resume(State, s).teardownTimers <= MaxTeardown

\* every armed timer fires in the end: weak fairness of Teardown and of
\* TimerFires, the latter spelled out over TimerEnabled
FairSpecPlay ==
  /\ SpecPlay
  /\ WF_vars(Teardown)
  /\ ([]<>(~TimerEnabled) \/ []<><<TimerFires>>_vars)

\* ------------------------------------------------------------ vocabulary
\* session s has a scheduler loop suspended in a wait
Active(s) == sess[s].status = "waiting"

Ended(s) == sess[s].status \in {"completed", "cancelled"}

\* this step is a call of handleStart
StartStep == nSessions' = nSessions + 1

\* this step is a call of handleStop
StopStep == nStops' = nStops + 1

\* this step is the natural completion of session s after a wait
CompletionStep(s) == Active(s) /\ sess'[s].status = "completed"

NewestRecord == [targetText |-> playedTextRef]

IsOnChar(ev) == ev.e = "onChar"

IsAudible(ev) == ev.e \in {"onChar", "playTone"}

\* the characters the progress callback of session s was invoked with, in order
Reported(s) ==
  LET calls == SelectSeq(trace[s], IsOnChar)
  IN  [ j \in 1..Len(calls) |-> calls[j].c ]

\* the appends of session s waiting in the queue of setPlayedText
Queued(s) ==
  Cardinality({ j \in 1..Len(pendingPlayedText) :
                  pendingPlayedText[j].s = s /\ pendingPlayedText[j].op = "append" })

\* text consists of characters of the Morse table and spaces
Mapped(text) == \A j \in 1..Len(text) : text[j] \in MorseKeys \cup {" "}

\* the symbol session s waits in
WaitSymbol(s) ==
  textToMorseSequence(IF sess[s].pos.phase = "pre" THEN settings.preStartText
                      ELSE sess[s].text)[sess[s].pos.i]

Tones(n) == [ j \in 1..n |-> Ev("playTone", "", 0) ]

\* callbacks and tone starts a text calls for, character by character
RECURSIVE Audible(_, _, _)
Audible(text, j, withProgress) ==
  IF j > Len(text) THEN <<>>
  ELSE LET u == toUpperCase(text[j])
           own == IF u = " " THEN <<Ev("onChar", " ", 0)>>
                  ELSE IF MORSE_CODE(u) = <<>> THEN <<>>
                  ELSE <<Ev("onChar", u, 0)>> \o Tones(Len(MORSE_CODE(u)))
       IN  (IF withProgress THEN own ELSE SelectSeq(own, LAMBDA ev : ~IsOnChar(ev)))
           \o Audible(text, j + 1, withProgress)

ExpectedAudible(s) ==
  (IF HasPreamble THEN Audible(settings.preStartText, 1, FALSE) ELSE <<>>)
  \o Audible(sess[s].text, 1, TRUE)

IsPrefix(a, b) == Len(a) <= Len(b) /\ a = SubSeq(b, 1, Len(a))

\* --------------------------------------------------------------- claims
\* C1: at most one playback (a scheduler loop with its own cancellation token)
\* is active at any instant.
C1_OnePlaybackActive == Cardinality({ s \in Sessions : Active(s) }) <= 1

\* C2: a start while a session is active first cancels that session: its token
\* is signalled and its loop is stopped by the time the new text is played.
C2_StartCancelsActive ==
  [][ StartStep =>
        \A s \in Sessions : Active(s) => aborted'[s] /\ ~Active(s)' ]_vars

C4_StopIdempotent ==
  [][ StopStep /\ (\A s \in Sessions : ~Active(s)) => history' = history ]_vars

\* C5: a start while a session is playing finalizes exactly one history record
\* for the interrupted session, present before the new text is played (stated
\* for an interrupted session whose played text is non-empty).
C5_StartFinalizesInterrupted ==
  [][ StartStep /\ (\E s \in Sessions : Active(s)) /\ playedTextRef # <<>> =>
        history' = <<NewestRecord>> \o history ]_vars

\* C6: when the token of a session is signalled while its scheduler is suspended
\* in a wait, the session ends as cancelled where it stood, its scheduler does
\* nothing further, and the tone generator is off.
C6_CancelDuringWait ==
  /\ [][ \A s \in Sessions :
           /\ Active(s) /\ aborted'[s] /\ ~CompletionStep(s) =>
                /\ sess'[s] = [sess[s] EXCEPT !.status = "cancelled"]
                /\ trace'[s] = trace[s]
                /\ ~oscillator'
           /\ sess[s].status = "cancelled" =>
                sess'[s] = sess[s] /\ trace'[s] = trace[s] ]_vars
  /\ [](\A s \in Sessions : sess[s].status = "cancelled" => ~oscillator)

C6_Witness ==
  \E s \in Sessions :
    /\ sess[s].status = "cancelled"
    /\ sess[s].pos.phase = "main"
    /\ sess[s].pos.w = 1
    /\ WaitSymbol(s).type = "dash"
    /\ ~oscillator

\* C7: a stop request signals the token of the current session, and once the
\* token of a session is signalled its progress callback is not invoked again
\* and queues no further character for the played text.
C7_NoProgressAfterCancel ==
  [][ \A s \in Sessions :
        /\ StopStep /\ abortControllerRef = s => aborted'[s]
        /\ aborted[s] => Reported(s)' = Reported(s) /\ Queued(s)' <= Queued(s) ]_vars

C7_Witness ==
  \E s \in Sessions :
    /\ sess[s].status = "cancelled"
    /\ sess[s].pos.phase = "pre"
    /\ sess[s].text # <<>>
    /\ Reported(s) = <<>>

\* C8: with every timer firing in the end, a session that is playing reaches
\* the end of its sequence unless its token is signalled, and the step that
\* completes it leaves the tone off and sets the play state to FINISHED.
C8_PlaybackCompletes ==
  /\ \A s \in Sessions :
       Active(s) ~> (sess[s].status = "completed" \/ aborted[s])
  /\ [][ \A s \in Sessions :
           CompletionStep(s) => ~oscillator' /\ pendingPlayState' = "FINISHED" ]_vars

C8_Witness ==
  \E s \in Sessions :
    /\ sess[s].status = "completed"
    /\ nStops = 0
    /\ Len(sess[s].text) = MaxPlayChars
    /\ ~oscillator
    /\ playState = "FINISHED"

\* C9: a completed playback of a text of mapped characters and spaces has
\* invoked the progress callback once per character, in text order, and the
\* played text React then shows is the text.
C9_ProgressMatchesText ==
  \A s \in Sessions :
    sess[s].status = "completed" /\ Mapped(sess[s].text) =>
      /\ Reported(s) = sess[s].text
      /\ pendingPlayedText = <<>> => playedText = sess[s].text

C9_Witness ==
  \E s \in Sessions :
    /\ sess[s].status = "completed"
    /\ sess[s].text = <<"E", " ", "E">>
    /\ playedText = sess[s].text

\* C10: the progress callback of a character is invoked immediately before the
\* tone of its first element starts, and before no other element: the callbacks
\* and tone starts of a session are those its texts call for, in that order.
C10_ProgressBeforeFirstTone ==
  \A s \in Sessions :
    /\ LET audible == SelectSeq(trace[s], IsAudible)
           expected == ExpectedAudible(s)
       IN  /\ IsPrefix(audible, expected)
           /\ sess[s].status = "completed" => audible = expected
    /\ \A j \in 1..Len(trace[s]) :
         trace[s][j].e = "onChar" /\ trace[s][j].c # " " =>
           j < Len(trace[s]) /\ trace[s][j + 1].e = "playTone"

C10_Witness ==
  \E s \in Sessions :
    /\ sess[s].status = "completed"
    /\ sess[s].text = <<"K", "K">>
    /\ HasPreamble

\* ------------------------------------------------- vocabulary, continued
Started(s) == sess[s].status # "none"

\* this step calls AudioEngine.stopTone: a stop request, a natural completion,
\* or the end of the tone of a dot or dash
StopToneCalled ==
  \/ StopStep
  \/ \E s \in Sessions : CompletionStep(s)
  \/ \E s \in Sessions :
       /\ Len(trace'[s]) > Len(trace[s])
       /\ trace'[s][Len(trace[s]) + 1].e = "stopTone"

\* oscillators started and neither stopped nor handed to a teardown callback
Sounding == (IF oscillator THEN 1 ELSE 0) + orphaned

\* the calls one element of a character takes
ElementEvents(e) ==
  << Ev("playTone", "", 0), Ev("wait", "", IF e = "." THEN 1 ELSE 3),
     Ev("stopTone", "", 0), Ev("wait", "", 1) >>

RECURSIVE Elements(_)
Elements(morse) ==
  IF morse = <<>> THEN <<>>
  ELSE ElementEvents(Head(morse)) \o Elements(Tail(morse))

\* the waits of a gap: k dot durations, and the rest of a spacing set above
\* the standard one
GapEvents(k, spacing, standard) ==
  << Ev("wait", "", k) >>
  \o (IF spacing > standard THEN << Ev("wait", "", spacing - standard) >> ELSE <<>>)

\* callbacks, tone calls and waits a text calls for, character by character
RECURSIVE Timeline(_, _, _)
Timeline(text, j, withProgress) ==
  IF j > Len(text) THEN <<>>
  ELSE LET u == toUpperCase(text[j])
           progress == IF withProgress THEN << Ev("onChar", u, 0) >> ELSE <<>>
           own == IF u = " "
                  THEN progress \o GapEvents(6, settings.wordSpacing, 7)
                  ELSE IF MORSE_CODE(u) = <<>> THEN <<>>
                  ELSE progress \o Elements(MORSE_CODE(u))
                       \o (IF j < Len(text) /\ text[j + 1] # " "
                           THEN GapEvents(2, settings.charSpacing, 3) ELSE <<>>)
       IN  own \o Timeline(text, j + 1, withProgress)

\* the characters of a text that are in the Morse table or are spaces
MappedPart(text) == SelectSeq(text, LAMBDA c : c \in MorseKeys \cup {" "})

PreambleTimeline == Timeline(settings.preStartText, 1, FALSE)

PreambleGap == << Ev("wait", "", 7) >>

MainTimeline(s) == Timeline(sess[s].text, 1, TRUE)

SessionTimeline(s) ==
  (IF HasPreamble THEN PreambleTimeline \o PreambleGap ELSE <<>>) \o MainTimeline(s)

\* ------------------------------------------------------ claims, continued
\* C11: at most one tone is on at any instant: there is never more than one
\* oscillator that playTone started and nothing has stopped.
C11_AtMostOneTone == Sounding <= 1

\* C12: once stopTone has been invoked no oscillator is left emitting sound:
\* every oscillator playTone started is stopped or handed to the teardown that
\* follows the fade-out.
C12_SilenceAfterStopTone ==
  [][ StopToneCalled => Sounding' = 0 ]_vars

\* C13: stopTone called while the engine holds no tone changes nothing in the
\* tone generator and schedules no teardown.
C13_StopToneIdempotent ==
  [][ StopToneCalled /\ ~oscillator =>
        UNCHANGED << ctx, ctxState, oscillator, orphaned, teardownTimers >> ]_vars

C13_Witness ==
  /\ nStops = 2
  /\ nSessions = 1
  /\ sess[1].status = "cancelled"
  /\ sess[1].pos.w = 1
  /\ teardownTimers = 0

\* C14: once the audio context is closed, no playTone call creates or starts an
\* oscillator.
C14_NoToneAfterClose ==
  [][ ctxState = "closed" => (oscillator' => oscillator) /\ orphaned' = orphaned ]_vars

\* C15: without an audio context the tone generator never changes state and
\* raises no error, and a session makes the calls and waits its texts call for,
\* in that order, all of them by the time it completes, as it does with a
\* context.
C15_AbsentDeviceIsNoOp ==
  /\ ~ctx =>
       /\ ctxState = "none" /\ ~oscillator /\ orphaned = 0 /\ teardownTimers = 0
       /\ consoleErrors = 0
       /\ \A s \in Sessions : sess[s].status # "failed"
  /\ \A s \in Sessions :
       Started(s) =>
         /\ IsPrefix(trace[s], SessionTimeline(s))
         /\ sess[s].status = "completed" => trace[s] = SessionTimeline(s)

C15_Witness ==
  /\ ~ctx
  /\ settings.volume = "NaN"
  /\ \E s \in Sessions :
       /\ sess[s].status = "completed"
       /\ HasPreamble
       /\ Reported(s) = sess[s].text
       /\ Len(trace[s]) > Len(PreambleTimeline)

\* C16: a stop request ends the session it cancels as cancelled, not as failed,
\* and logs no error; errors are logged for failed sessions only, and only a
\* session whose token was signalled is cancelled.
C16_CancellationIsNotFailure ==
  /\ [][ /\ StopStep =>
              /\ consoleErrors' = consoleErrors
              /\ \A s \in Sessions : sess'[s].status = "failed" => sess[s].status = "failed"
         /\ \A s \in Sessions :
              Active(s) /\ aborted'[s] /\ ~CompletionStep(s) =>
                sess'[s].status = "cancelled" ]_vars
  /\ [](consoleErrors = Cardinality({ s \in Sessions : sess[s].status = "failed" }))
  /\ [](\A s \in Sessions : sess[s].status = "cancelled" => aborted[s])

C16_Witness ==
  \E s \in Sessions :
    /\ sess[s].status = "cancelled"
    /\ trace[s] # <<>>
    /\ ctxState = "running"
    /\ settings.volume = "0.5"
    /\ consoleErrors = 0

\* C17: when a tone operation of a session fails, the step that ends the session
\* leaves the tone generator without an oscillator, logs the failure once, and
\* leaves the controller ready for a fresh start: not playing, the token of the
\* failed session released.
C17_FailureEndsPlayback ==
  [][ \A s \in Sessions :
        sess[s].status # "failed" /\ sess'[s].status = "failed" =>
          /\ ~oscillator'
          /\ consoleErrors' = consoleErrors + 1
          /\ pendingPlayState' # "PLAYING"
          /\ abortControllerRef' # s ]_vars

\* C18: the target text of a record being finalized is the sequence of
\* characters the progress callback has reported so far.
C18_RecordHoldsReportedText ==
  [][ history' # history =>
        \E s \in Sessions : Started(s) /\ history'[1].targetText = Reported(s) ]_vars

C20_PreambleLeavesPlayedText ==
  \A s \in Sessions :
    Started(s) =>
      LET reported == Reported(s)
      IN  /\ sess[s].pos.phase \in {"pre", "gap"} =>
               /\ reported = <<>> /\ Queued(s) = 0
               /\ playedText = <<>> /\ playedTextRef = <<>>
               /\ history = <<>>
          /\ \A j \in 1..Len(history) :
               IsPrefix(history[j].targetText, reported)
          /\ IsPrefix(reported, MappedPart(sess[s].text))

C20_Witness ==
  \E s \in Sessions :
    /\ settings.preStartText = <<"e">>
    /\ sess[s].text = <<"K">>
    /\ sess[s].status = "completed"
    /\ Len(history) = 1
    /\ history[1].targetText = <<"K">>

\* the positions below the shorter length where two strings agree
Matches(t, u) == Cardinality({ i \in 1..Len(t) : i <= Len(u) /\ t[i] = u[i] })

\* C21: calculateScore strips whitespace from both strings and upper-cases
\* them, counts the positions below the shorter length where they agree, and
\* returns matches / max(length of the stripped target, 1) * 10 rounded to one
\* decimal: the score lies within 0..10, is 0 for an empty target, is 10 when
\* the stripped transcript equals a non-empty stripped target, and characters
\* of the transcript beyond the target length do not change it.  Scores are in
\* tenths.
C21_ScoreContract ==
  call.fn = "calculateScore" /\ call.done =>
    LET target == call.args[1]
        user == call.args[2]
        t == upperCased(stripWhitespace(target))
        u == upperCased(stripWhitespace(user))
        len == IF Len(t) = 0 THEN 1 ELSE Len(t)
        score == call.result
        off == 2 * (score * len - 100 * Matches(t, u))
    IN  /\ -len < off /\ off <= len
        /\ score \in 0..100
        /\ target = <<>> => score = 0
        /\ t # <<>> /\ u = t => score = 100
        /\ Len(u) >= Len(t) =>
             \A c \in ScoreChars : calculateScore(target, Append(user, c)) = score

C21_Witness ==
  /\ call.fn = "calculateScore" /\ call.done
  /\ call.args = << <<"E", " ", "T">>, <<"e", "e", "T">> >>
  /\ call.result = 50

\* text has L characters other than spaces, drawn from the upper-cased charset,
\* and a single space after the k-th of them exactly for the multiples k of g
\* below L
Grouped(text, charset, L, g) ==
  /\ Len(SelectSeq(text, LAMBDA c : c # " ")) = L
  /\ \A j \in 1..Len(text) :
       text[j] # " " => \E k \in 1..Len(charset) : text[j] = toUpperCase(charset[k])
  /\ \A j \in 1..Len(text) :
       text[j] = " " <=> \E k \in 1..(L - 1) : k % g = 0 /\ j = k + (k \div g)
  /\ text # <<>> => text[1] # " " /\ text[Len(text)] # " "

\* C22: for every non-empty charset, length L and groupSize g >= 1,
\* generateRandomText returns exactly L non-space characters of the upper-cased
\* charset, with a single space after exactly the character positions k that
\* are multiples of g below L, and no leading or trailing space; for an empty
\* charset it returns the empty string.
C22_GeneratedText ==
  call.fn = "generateRandomText" /\ call.done =>
    IF call.args[1] = <<>> THEN call.result = <<>>
    ELSE Grouped(call.result, call.args[1], call.args[2], call.args[3])

\* C22 as amended: the same for every non-empty charset without a space.
C22_GeneratedTextOfSpacelessCharset ==
  call.fn = "generateRandomText" /\ call.done =>
    IF call.args[1] = <<>> THEN call.result = <<>>
    ELSE (\A k \in 1..Len(call.args[1]) : call.args[1][k] # " ") =>
           Grouped(call.result, call.args[1], call.args[2], call.args[3])

C22_Witness ==
  /\ call.fn = "generateRandomText" /\ call.done
  /\ call.args = << <<"e", "T">>, 3, 2 >>
  /\ call.result = <<"E", "T", " ", "E">>

\* the character has a Morse code once upper-cased
HasCode(c) == toUpperCase(c) \in MorseKeys

\* text without its characters that are neither spaces nor have a Morse code
WithoutUnmapped(text) == SelectSeq(text, LAMBDA c : c = " " \/ HasCode(c))

\* C23: characters without a Morse code are skipped and contribute no symbol
\* and no gap: compiling a text yields the sequence that compiling it without
\* those characters yields.
C23_UnmappedContributeNothing ==
  call.fn = "textToMorseSequence" /\ call.done =>
    call.result = textToMorseSequence(WithoutUnmapped(call.args[1]))

IsElement(sym) == sym.type \in {"dot", "dash"}

\* the dots and dashes of the Morse code of an upper-case character, tagged
CodeSymbols(char) ==
  [ j \in 1..Len(MORSE_CODE(char)) |->
      Sym(IF MORSE_CODE(char)[j] = "." THEN "dot" ELSE "dash", char) ]

\* seq[p..q] is a run of dots and dashes with no dot or dash next to it
IsRun(seq, p, q) ==
  /\ \A j \in p..q : IsElement(seq[j])
  /\ p > 1 => ~IsElement(seq[p - 1])
  /\ q < Len(seq) => ~IsElement(seq[q + 1])

\* the mapped characters of text that are neither its last character nor
\* followed by a space
GapOwners(text) ==
  { i \in 1..Len(text) : HasCode(text[i]) /\ i < Len(text) /\ text[i + 1] # " " }

\* C24: after the last element of a mapped character the compiler emits exactly
\* one character gap when the character is neither the last of the text nor
\* followed by a space, and none otherwise: there are as many character gaps as
\* such characters, each follows a dot or dash, and the dots and dashes between
\* two gaps are the code of one character; so a text of mapped characters and
\* spaces never compiles to a sequence ending in a character gap, and none of
\* its character gaps is next to a word gap.
C24_CharacterGaps ==
  call.fn = "textToMorseSequence" /\ call.done =>
    LET text == call.args[1]
        seq == call.result
        gaps == { p \in 1..Len(seq) : seq[p].type = "charSpace" }
    IN  /\ Cardinality(gaps) = Cardinality(GapOwners(text))
        /\ \A p \in gaps : p > 1 /\ IsElement(seq[p - 1])
        /\ \A p \in 1..Len(seq) : \A q \in p..Len(seq) :
             IsRun(seq, p, q) => SubSeq(seq, p, q) = CodeSymbols(seq[p].char)
        /\ WithoutUnmapped(text) = text =>
             \A p \in gaps : p < Len(seq) /\ IsElement(seq[p + 1])

C24_Witness ==
  /\ call.fn = "textToMorseSequence" /\ call.done
  /\ call.args = << <<"k", "E", " ">> >>
  /\ Len(call.result) = 6
  /\ call.result[4].type = "charSpace"
  /\ call.result[6].type = "wordSpace"

SymbolTypes == {"dot", "dash", "charSpace", "wordSpace"}

\* the dots and dashes of the codes of the characters of text
RECURSIVE ElementCount(_)
ElementCount(text) ==
  IF text = <<>> THEN 0
  ELSE Len(MORSE_CODE(toUpperCase(Head(text)))) + ElementCount(Tail(text))

SpaceCount(text) == Cardinality({ i \in 1..Len(text) : text[i] = " " })

\* C25: after every dot and dash the compiler emits an intra-character gap
\* symbol, a symbol of a kind of its own, except after the last element of a
\* character that is the last of the text or is followed by a space: a dot or
\* dash that is not the last symbol and is not followed by a word gap is
\* followed by such a symbol.
C25_IntraCharacterGapSymbols ==
  call.fn = "textToMorseSequence" /\ call.done =>
    LET seq == call.result
    IN  \A p \in 1..(Len(seq) - 1) :
          IsElement(seq[p]) /\ seq[p + 1].type # "wordSpace" =>
            seq[p + 1].type \notin SymbolTypes

\* C25 as amended: the compiler emits no intra-character gap symbol.  Every
\* symbol is a dot, a dash, a character gap or a word gap, there are no more
\* symbols than the elements, spaces and character gaps of the text, and a
\* character of k elements is k symbols that follow one another directly.
C25_NoIntraCharacterGapSymbol ==
  call.fn = "textToMorseSequence" /\ call.done =>
    LET text == call.args[1]
        seq == call.result
    IN  /\ \A p \in 1..Len(seq) : seq[p].type \in SymbolTypes
        /\ Len(seq) = ElementCount(text) + SpaceCount(text)
                      + Cardinality(GapOwners(text))
        /\ \A p \in 1..Len(seq) : \A q \in p..Len(seq) :
             IsRun(seq, p, q) => q - p + 1 = Len(MORSE_CODE(seq[p].char))

C25_Witness ==
  /\ call.fn = "textToMorseSequence" /\ call.done
  /\ call.args = << <<"k">> >>
  /\ call.result = << Sym("dash", "K"), Sym("dot", "K"), Sym("dash", "K") >>

IsWordGap(sym) == sym.type = "wordSpace"

\* the position in seq of its n-th word gap
WordGapAt(seq, n) ==
  CHOOSE p \in 1..Len(seq) :
    IsWordGap(seq[p]) /\ Len(SelectSeq(SubSeq(seq, 1, p), IsWordGap)) = n

\* C26: every space of the text produces exactly one word gap at its place in
\* the compiled sequence: there are as many word gaps as spaces, the word gap of
\* a space comes after exactly the dots and dashes of the characters before the
\* space, and two spaces in a row give two word gaps in a row.
C26_WordGapPerSpace ==
  call.fn = "textToMorseSequence" /\ call.done =>
    LET text == call.args[1]
        seq == call.result
    IN  /\ Len(SelectSeq(seq, IsWordGap)) = SpaceCount(text)
        /\ \A i \in 1..Len(text) :
             text[i] = " " =>
               LET n == SpaceCount(SubSeq(text, 1, i))
                   p == WordGapAt(seq, n)
               IN  /\ Len(SelectSeq(SubSeq(seq, 1, p), IsElement))
                        = ElementCount(SubSeq(text, 1, i - 1))
                   /\ i < Len(text) /\ text[i + 1] = " " =>
                        WordGapAt(seq, n + 1) = p + 1

C26_Witness ==
  /\ call.fn = "textToMorseSequence" /\ call.done
  /\ call.args = << <<"E", " ", " ">> >>
  /\ call.result = << Sym("dot", "E"), Sym("wordSpace", ""), Sym("wordSpace", "") >>

\* the tagged dots and dashes of the codes of the characters of text, in order
RECURSIVE CodeOf(_)
CodeOf(text) ==
  IF text = <<>> THEN <<>>
  ELSE CodeSymbols(toUpperCase(Head(text))) \o CodeOf(Tail(text))

\* C27: the compiled sequence mirrors the input order: without its gap symbols
\* it is the concatenation, in input order, of one dot per "." and one dash per
\* "-" of the Morse code of each mapped character, looked up after
\* upper-casing, each element tagged with its upper-cased source character.
C27_ElementsInInputOrder ==
  call.fn = "textToMorseSequence" /\ call.done =>
    SelectSeq(call.result, IsElement) = CodeOf(call.args[1])

C27_Witness ==
  /\ call.fn = "textToMorseSequence" /\ call.done
  /\ call.args = << <<"E", "k">> >>
  /\ call.result = << Sym("dot", "E"), Sym("charSpace", ""), Sym("dash", "K"),
                      Sym("dot", "K"), Sym("dash", "K") >>

IsWait(ev) == ev.e = "wait"

\* the durations of the waits of a trace, in dot durations and in order
Waits(events) ==
  LET waits == SelectSeq(events, IsWait)
  IN  [ j \in 1..Len(waits) |-> waits[j].k ]

RECURSIVE Sum(_)
Sum(durations) ==
  IF durations = <<>> THEN 0 ELSE Head(durations) + Sum(Tail(durations))

\* the waits a symbol calls for under the settings
SymbolWaits(sym) ==
  CASE sym.type = "dot" -> <<1, 1>>
    [] sym.type = "dash" -> <<3, 1>>
    [] sym.type = "charSpace" ->
         <<2>> \o (IF settings.charSpacing > 3
                   THEN <<settings.charSpacing - 3>> ELSE <<>>)
    [] sym.type = "wordSpace" ->
         <<6>> \o (IF settings.wordSpacing > 7
                   THEN <<settings.wordSpacing - 7>> ELSE <<>>)

RECURSIVE SequenceWaits(_)
SequenceWaits(sequence) ==
  IF sequence = <<>> THEN <<>>
  ELSE SymbolWaits(Head(sequence)) \o SequenceWaits(Tail(sequence))

\* the waits of a whole playback of text under the settings: a function of the
\* text and the settings alone
PlaybackWaits(text) ==
  (IF HasPreamble
   THEN SequenceWaits(textToMorseSequence(settings.preStartText)) \o <<7>>
   ELSE <<>>)
  \o SequenceWaits(textToMorseSequence(text))

\* the dot durations a compiled text takes: two per dot, four per dash, the
\* character spacing less one per character gap and the word spacing less one
\* per word gap, the standard three and seven at least
SequenceUnits(sequence) ==
  LET n(type) == Cardinality({ p \in 1..Len(sequence) : sequence[p].type = type })
      perCharGap == IF settings.charSpacing > 3 THEN settings.charSpacing - 1 ELSE 2
      perWordGap == IF settings.wordSpacing > 7 THEN settings.wordSpacing - 1 ELSE 6
  IN  2 * n("dot") + 4 * n("dash") + perCharGap * n("charSpace")
      + perWordGap * n("wordSpace")

PlaybackUnits(text) ==
  (IF HasPreamble
   THEN SequenceUnits(textToMorseSequence(settings.preStartText)) + 7 ELSE 0)
  + SequenceUnits(textToMorseSequence(text))

\* a number of dot durations in milliseconds, as a fraction
Milliseconds(k) ==
  [num |-> k * getTimingUnits(settings.wpm).num, den |-> getTimingUnits(settings.wpm).den]

\* C28: compilation and playback timing are deterministic: the waits of an
\* uncancelled playback are those a compilation of its text, and of the
\* preamble, calls for under the settings, in the same order and with the same
\* total, so two uncancelled playbacks of one text under the same settings
\* perform the same waits.
C28_TimingIsAFunctionOfTextAndSettings ==
  \A s \in Sessions :
    sess[s].status = "completed" =>
      /\ Waits(trace[s]) = PlaybackWaits(sess[s].text)
      /\ Milliseconds(Sum(Waits(trace[s])))
           = Milliseconds(PlaybackUnits(sess[s].text))

C28_Witness ==
  \E s \in Sessions :
    /\ sess[s].status = "completed"
    /\ settings.preStartText = <<"E">>
    /\ settings.charSpacing = 5
    /\ sess[s].text = <<"A", "A">>
    /\ Waits(trace[s]) = <<1, 1, 7, 1, 1, 3, 1, 2, 2, 1, 1, 3, 1>>

\* C29: for every wpm of 5..60 getTimingUnits(wpm) is exactly 1200 / wpm
\* milliseconds, the unit times wpm being 1200, and every wait the scheduler
\* performs lasts a whole number of units, one at least.
C29_UnitAndItsMultiples ==
  /\ settings.wpm \in MinWpm..MaxWpm
  /\ \A wpm \in MinWpm..MaxWpm :
       /\ getTimingUnits(wpm).den > 0
       /\ getTimingUnits(wpm).num * wpm = 1200 * getTimingUnits(wpm).den
  /\ \A s \in Sessions : \A j \in 1..Len(trace[s]) :
       IsWait(trace[s][j]) =>
         LET ms == Milliseconds(trace[s][j].k)
         IN  \E n \in 1..(7 + settings.charSpacing + settings.wordSpacing) :
               ms.num * settings.wpm = n * 1200 * ms.den

C29_Witness ==
  \E s \in Sessions :
    /\ sess[s].status = "completed"
    /\ settings.wpm = 7
    /\ settings.wordSpacing = 9
    /\ settings.preStartText = <<>>
    /\ sess[s].text = <<"A", " ", "A">>
    /\ Waits(trace[s]) = <<1, 1, 3, 1, 6, 2, 1, 1, 3, 1>>

\* the dots and dashes session s is to play, preamble first
SessionElements(s) ==
  SelectSeq((IF HasPreamble THEN textToMorseSequence(settings.preStartText)
             ELSE <<>>) \o textToMorseSequence(sess[s].text),
            IsElement)

IsPlayTone(ev) == ev.e = "playTone"

\* session s is suspended in the wait that follows the playTone of an element
InToneWait(s) ==
  /\ Active(s)
  /\ sess[s].pos.phase # "gap"
  /\ sess[s].pos.w = 1
  /\ IsElement(WaitSymbol(s))

\* C30: for every dot the scheduler performs, in this order, tone on, a wait of
\* one unit, tone off, a wait of one unit, and for every dash tone on, a wait of
\* three units, tone off, a wait of one unit, a cancellation cutting the four
\* short only while the session waits; the tone is on during the first of these
\* waits and at no other time, so it is off during every gap wait.
C30_ElementTiming ==
  /\ \A s \in Sessions : \A n \in 1..Len(trace[s]) :
       IsPlayTone(trace[s][n]) =>
         LET j == Len(SelectSeq(SubSeq(trace[s], 1, n), IsPlayTone))
             units == IF SessionElements(s)[j].type = "dot" THEN 1 ELSE 3
             rest == SubSeq(trace[s], n + 1, Len(trace[s]))
             full == << Ev("wait", "", units), Ev("stopTone", "", 0),
                        Ev("wait", "", 1) >>
         IN  /\ IF Len(rest) >= 3 THEN SubSeq(rest, 1, 3) = full
                ELSE rest = << Ev("wait", "", units) >> /\ ~(sess[s].status = "completed")
  /\ oscillator <=> \E s \in Sessions : InToneWait(s)
  /\ orphaned = 0

C30_Witness ==
  \E s \in Sessions :
    /\ sess[s].status = "completed"
    /\ settings.preStartText = <<>>
    /\ trace[s] = << Ev("onChar", "A", 0),
                     Ev("playTone", "", 0), Ev("wait", "", 1),
                     Ev("stopTone", "", 0), Ev("wait", "", 1),
                     Ev("playTone", "", 0), Ev("wait", "", 3),
                     Ev("stopTone", "", 0), Ev("wait", "", 1) >>

IsStopTone(ev) == ev.e = "stopTone"

\* everything session s is to play in order: the preamble, the gap after it as a
\* symbol of its own, and the main text
SessionSymbols(s) ==
  (IF HasPreamble
   THEN textToMorseSequence(settings.preStartText) \o << Sym("preambleGap", "") >>
   ELSE <<>>)
  \o textToMorseSequence(sess[s].text)

\* the position in symbols of its j-th dot or dash
ElementAt(symbols, j) ==
  CHOOSE p \in 1..Len(symbols) :
    IsElement(symbols[p]) /\ Len(SelectSeq(SubSeq(symbols, 1, p), IsElement)) = j

\* the kinds of the symbols between the j-th element of session s and the next
GapSymbols(s, j) ==
  LET symbols == SessionSymbols(s)
      between == SubSeq(symbols, ElementAt(symbols, j) + 1,
                        ElementAt(symbols, j + 1) - 1)
  IN  [ p \in 1..Len(between) |-> between[p].type ]

\* the silences of session s: for every stopTone that a playTone follows, the
\* number j of the element it ends and what the scheduler did up to the playTone
Silences(s) ==
  { [j |-> Len(SelectSeq(SubSeq(trace[s], 1, n), IsStopTone)),
     events |-> SubSeq(trace[s], n + 1, m - 1)] :
      <<n, m>> \in { nm \in (1..Len(trace[s])) \X (1..Len(trace[s])) :
                       /\ nm[1] < nm[2]
                       /\ IsStopTone(trace[s][nm[1]])
                       /\ IsPlayTone(trace[s][nm[2]])
                       /\ \A q \in (nm[1] + 1)..(nm[2] - 1) :
                            ~IsPlayTone(trace[s][q]) } }

\* the character spacing in effect
CharGapUnits == IF settings.charSpacing > 3 THEN settings.charSpacing ELSE 3

\* the word spacing in effect
WordGapUnits == IF settings.wordSpacing > 7 THEN settings.wordSpacing ELSE 7

\* C31: between two consecutive characters of one word the silence from the
\* tone-off of the last element of the first to the tone-on of the first element
\* of the next lasts max(3, charSpacing) units: the element gap of one unit,
\* then max(3, charSpacing) - 1 units of character gap, the scheduler doing
\* nothing else before it reports the next character.
C31_CharacterGapSilence ==
  \A s \in Sessions : \A g \in Silences(s) :
    GapSymbols(s, g.j) = <<"charSpace">> =>
      /\ \A q \in 1..Len(g.events) :
           IsWait(g.events[q]) \/ (q = Len(g.events) /\ IsOnChar(g.events[q]))
      /\ Head(Waits(g.events)) = 1
      /\ Sum(Tail(Waits(g.events))) = CharGapUnits - 1
      /\ Sum(Waits(g.events)) >= 3

C31_Witness ==
  \E s \in Sessions :
    /\ sess[s].status = "completed"
    /\ settings.charSpacing = 1
    /\ settings.preStartText = <<>>
    /\ sess[s].text = <<"A", "A">>
    /\ Waits(trace[s]) = <<1, 1, 3, 1, 2, 1, 1, 3, 1>>

\* C32: across a single space the silence from the tone-off of the last element
\* before the space to the tone-on of the first element after it lasts
\* max(7, wordSpacing) units: the element gap of one unit, then
\* max(7, wordSpacing) - 1 units of word gap and no character gap; where there
\* is a progress callback the space is reported at the start of the word gap.
C32_WordGapSilence ==
  \A s \in Sessions : \A g \in Silences(s) :
    LET kinds == GapSymbols(s, g.j)
        reports == SelectSeq(g.events, IsOnChar)
        inMain == ElementAt(SessionSymbols(s), g.j)
                    > Len(SessionSymbols(s)) - Len(textToMorseSequence(sess[s].text))
    IN  /\ Len(SelectSeq(kinds, LAMBDA t : t = "wordSpace")) = 1
        /\ \A p \in 1..Len(kinds) : kinds[p] # "preambleGap"
        => /\ Head(g.events) = Ev("wait", "", 1)
           /\ Sum(Waits(g.events)) = WordGapUnits
           /\ inMain => /\ g.events[2] = Ev("onChar", " ", 0)
                        /\ g.events[3] = Ev("wait", "", 6)
           /\ ~inMain => reports = <<>>

\* C33: the cancellation token is tested when a wait is entered and by the
\* pending wait: a wait entered with a signalled token ends as cancelled at
\* once, without suspending; a pending wait ends as cancelled in the step that
\* signals the token; and its timer is cleared, the cancelled caller never
\* resuming.
C33_WaitObservesToken ==
  [][ \A s \in Sessions :
        /\ sess[s].status = "running" /\ aborted[s] /\ sess'[s] # sess[s] =>
             sess'[s].status = "cancelled" /\ trace'[s] = trace[s]
        /\ Active(s) /\ ~aborted[s] /\ aborted'[s] =>
             sess'[s].status = "cancelled" /\ trace'[s] = trace[s]
        /\ sess[s].status = "cancelled" =>
             sess'[s] = sess[s] /\ trace'[s] = trace[s] ]_vars

\* a first wait was entered with a signalled token: the caller is cancelled
\* and no wait was ever pending
C33_Witness ==
  /\ sess[1].status = "cancelled"
  /\ aborted[1]
  /\ sess[1].pos.i = 0
  /\ trace[1] = <<>>

\* C34: on every stop the tone is stopped and the cancellation is signalled and
\* delivered before the next session may start: a stop leaves the tone off and
\* the current session cancelled, and no session starts while the tone of an
\* earlier session is on or an earlier session is still to be cancelled.
C34_StopBeforeNextStart ==
  [][ /\ StopStep =>
           /\ ~oscillator'
           /\ \A s \in Sessions : abortControllerRef = s /\ Active(s) =>
                aborted'[s] /\ sess'[s].status = "cancelled"
      /\ StartStep =>
           /\ ~oscillator
           /\ \A s \in Sessions : ~Active(s) ]_vars

\* the waits of session s before the word gap that follows its preamble, once
\* that gap has been entered
PreambleWaits(s) ==
  LET waits == Waits(trace[s])
      gap == CHOOSE n \in 1..Len(waits) :
               waits[n] = 7 /\ \A m \in 1..(n - 1) : waits[m] # 7
  IN  SubSeq(waits, 1, gap - 1)

\* session s has played its preamble to the end
PreamblePlayed(s) ==
  /\ Started(s)
  /\ HasPreamble
  /\ sess[s].pos.phase \in {"gap", "main"}
  /\ \E n \in 1..Len(Waits(trace[s])) : Waits(trace[s])[n] = 7

\* C35: with standard spacing (charSpacing 3, wordSpacing 7) an uncancelled
\* playback of the standard word "PARIS " performs waits that sum to exactly 50
\* dot durations, so at speed w the word lasts 50 * 1200 / w milliseconds.
C35_StandardWord ==
  \A s \in Sessions :
    /\ PreamblePlayed(s)
    /\ settings.preStartText = StandardWord
    /\ settings.charSpacing = 3
    /\ settings.wordSpacing = 7
    => /\ Sum(PreambleWaits(s)) = 50
       /\ Milliseconds(Sum(PreambleWaits(s))).num * settings.wpm
            = 50 * 1200 * Milliseconds(Sum(PreambleWaits(s))).den

C35_Witness ==
  \E s \in Sessions :
    /\ PreamblePlayed(s)
    /\ settings.preStartText = StandardWord
    /\ settings.charSpacing = 3
    /\ settings.wordSpacing = 7
    /\ settings.wpm = MaxWpm
    /\ Len(PreambleWaits(s)) = 33
    /\ sess[s].status = "completed"

\* the play state the App has last set, rendered or still queued
DeclaredPlayState ==
  IF pendingPlayState # "none" THEN pendingPlayState ELSE playState

\* C36: after any sequence of start, stop, natural completion and failure
\* events, playState is PLAYING if and only if a playback is still in flight.
C36_PlayingIffInFlight ==
  DeclaredPlayState = "PLAYING" <=> \E s \in Sessions : Active(s)

\* C37: no history record with an empty target text is ever created: a step
\* taken while playedTextRef is empty leaves the history unchanged, so a stop of
\* the current session before the progress callback has reported any of its
\* main-text characters (during the preamble, say) appends no record.
C37_NoEmptyRecord ==
  [][ /\ \A i \in 1..Len(history') : history'[i].targetText # <<>>
      /\ playedTextRef = <<>> /\ ~StartStep => history' = history
      /\ \A s \in Sessions :
           StopStep /\ abortControllerRef = s /\ Active(s) /\ Reported(s) = <<>>
             => history' = history ]_vars

\* session s is finalized in this step: it completes, is cancelled or fails
FinalizationStep(s) ==
  /\ sess[s].status \in {"running", "waiting"}
  /\ sess'[s].status \in {"completed", "cancelled", "failed"}

\* C38: the finalization of a session signals and clears that session's own
\* cancellation handle only: it neither aborts the controller of a session
\* started after it nor takes it out of abortControllerRef.
C38_FinalizationKeepsLaterHandles ==
  [][ \A s \in Sessions : \A later \in Sessions :
        FinalizationStep(s) /\ later > s
          => /\ aborted'[later] = aborted[later]
             /\ abortControllerRef = later => abortControllerRef' = later ]_vars

====
